---------------------------- MODULE Spec2Model ----------------------------
(***************************************************************************)
(* Model of the Tango device class ThorlabsSC10 (src/ThorlabsSC10.py).     *)
(*                                                                         *)
(* The adapter owns one serial communicator object (self.sc) and three     *)
(* cached flags.  Every handler of the class is one action; what the       *)
(* handler hands to the communicator, what comes back and what the         *)
(* handler raises or returns is recorded in `call` (the last handler run)  *)
(* and, for the handler before it, in `prev`.                              *)
(*                                                                         *)
(* The controller on the other end of the line is the environment: it      *)
(* answers queries from its own state (`dev`), toggles its enable state    *)
(* on "ens", stores the wire mode on "mode=<n>", and its shutter and       *)
(* interlock move on their own.  Every exchange may fail: a reply may not  *)
(* arrive in time or may not be a number.                                  *)
(***************************************************************************)
EXTENDS Integers, Sequences, FiniteSets, TLC

VARIABLES
    state,      \* Tango DevState of the device (set_state)
    status,     \* Tango status text (set_status)
    enabled,    \* self.__enabled
    open,       \* self.__open
    interlock,  \* self.__interlock
    sc,         \* whether the attribute self.sc exists: "unset" | "set"
    dev,        \* the controller: [ens, closed, interlock, mode (wire)]
    call,       \* record of the last handler run
    prev        \* record of the handler run before it

vars == <<state, status, enabled, open, interlock, sc, dev, call, prev>>

---------------------------------------------------------------------------
(* Bounds and program constants *)

\* Largest integer the decimal formatter / parser is exercised on.
MaxInt == 9

\* Mode.manual .. Mode.external
MinMode == 0
MaxMode == 4

Modes == MinMode..MaxMode

---------------------------------------------------------------------------
(* '{:d}'.format(n) and int(s) *)

Digit == <<"0", "1", "2", "3", "4", "5", "6", "7", "8", "9">>

RECURSIVE FormatD(_)
FormatD(n) == IF n < 10 THEN Digit[n + 1]
              ELSE FormatD(n \div 10) \o Digit[(n % 10) + 1]

\* int(s) succeeds exactly on decimal numerals
IsInt(s) == \E n \in 0..MaxInt : FormatD(n) = s
IntOf(s) == CHOOSE n \in 0..MaxInt : FormatD(n) = s

\* bool(n)
Bool(n) == n # 0

---------------------------------------------------------------------------
(* The serial line and the controller *)

Timeout == "<timeout>"
Garbage == "Command error CMD_NOT_DEFINED"
IdReply == "THORLABS SC10 VERSION 1.07"

QueryOutcomes == {"ok", "timeout", "garbage"}
CmdOutcomes   == {"ok", "lost", "noack"}

B2S(b) == IF b THEN "1" ELSE "0"

\* What the controller answers to a query, from its own state.
DeviceAnswer(d, msg) ==
    CASE msg = "id?"        -> IdReply
      [] msg = "ens?"       -> B2S(d.ens)
      [] msg = "closed?"    -> B2S(d.closed)
      [] msg = "interlock?" -> B2S(d.interlock)
      [] msg = "mode?"      -> FormatD(d.mode)
      [] OTHER              -> Garbage

\* What self.sc.query(msg) gives back under outcome o.
Reply(d, msg, o) ==
    CASE o = "ok"      -> DeviceAnswer(d, msg)
      [] o = "garbage" -> Garbage
      [] OTHER         -> Timeout

\* The controller's state after it has processed a command.  "ens" toggles
\* the enable state; "mode=<n>" stores n when n is one of the five wire
\* modes 1..5 and is rejected otherwise; "savp" and "resp" do not touch the
\* fields modelled here.
DeviceApply(d, msg) ==
    IF msg = "ens" THEN [d EXCEPT !.ens = ~@]
    ELSE IF \E w \in (MinMode + 1)..(MaxMode + 1) : msg = "mode=" \o FormatD(w)
         THEN [d EXCEPT !.mode =
                  CHOOSE w \in (MinMode + 1)..(MaxMode + 1) : msg = "mode=" \o FormatD(w)]
         ELSE d

\* self.sc.sendcmd(msg) under outcome o: "ok" - processed and acknowledged;
\* "noack" - processed, the acknowledgement is lost; "lost" - never processed.
DeviceAfterCmd(d, msg, o) == IF o = "lost" THEN d ELSE DeviceApply(d, msg)
CmdExc(o) == IF o = "ok" THEN "none" ELSE "IOError"

\* What int(self.sc.query(...)) raises for a reply.
QueryIntExc(r) == IF r = Timeout THEN "IOError"
                  ELSE IF ~IsInt(r) THEN "ValueError" ELSE "none"

---------------------------------------------------------------------------
(* Records of handler runs *)

NoRet == <<"None">>

Rec(op, arg, sent, rcvd, raised, ret, opens, errlog) ==
    [op |-> op, arg |-> arg, sent |-> sent, rcvd |-> rcvd, raised |-> raised,
     ret |-> ret, opens |-> opens, errlog |-> errlog]

\* What is kept of the run before the last: its handler, argument, messages
\* and whether it completed without raising, when it is one of the handlers
\* whose successor matters to a property below; every other run is kept as
\* "other".
Tracked == {"always_executed_hook", "enable", "write_mode", "store_config"}

Short(c) == IF c.op \in Tracked
            THEN [op |-> c.op, arg |-> c.arg, sent |-> c.sent, ok |-> c.raised = "none"]
            ELSE [op |-> "other", arg |-> 0, sent |-> <<>>, ok |-> TRUE]

Log(c) == /\ call' = c
          /\ prev' = Short(call)

Constructed == state # "UNKNOWN"

---------------------------------------------------------------------------
(* Init: the Device object exists, init_device has not run yet *)

Init ==
    /\ state = "UNKNOWN"
    /\ status = "Not initialised"
    /\ enabled = FALSE
    /\ open = FALSE
    /\ interlock = FALSE
    /\ sc = "unset"
    /\ dev \in [ens : BOOLEAN, closed : BOOLEAN, interlock : BOOLEAN,
                mode : {MinMode + 1}]
    /\ call = Rec("new", 0, <<>>, <<>>, "none", NoRet, <<>>, <<>>)
    /\ prev = Short(call)

---------------------------------------------------------------------------
(* init_device / delete_device *)

\* set_state(DevState.ON) on the try branch, set_state(DevState.OFF) in the
\* except branch.
ConnectState(ok) == IF ok THEN "ON" ELSE "OFF"

\* The bare `except:` catches whatever the try block raised: nothing leaves
\* init_device.
InitRaised_uncaught(exc) == exc

InitRaised(exc) == "none"

\* open_serial may fail; if it succeeds self.sc is bound and 'id?' is
\* queried, which may time out.  Any reply text is accepted as the name.
init_device ==
    /\ state = "UNKNOWN" \/ call.op = "delete_device"
    /\ \E oo \in {"ok", "fail"}, oq \in QueryOutcomes :
         LET opened == oo = "ok"
             name   == Reply(dev, "id?", oq)
             exc    == IF ~opened THEN "SerialException"
                       ELSE IF name = Timeout THEN "IOError" ELSE "none"
             okAll  == exc = "none"
         IN /\ enabled' = FALSE
            /\ open' = FALSE
            /\ interlock' = FALSE
            /\ sc' = IF opened THEN "set" ELSE sc
            /\ state' = ConnectState(okAll)
            /\ Log(Rec("init_device", 0,
                       IF opened THEN <<"id?">> ELSE <<>>,
                       IF opened THEN <<name>> ELSE <<>>,
                       InitRaised(exc), NoRet, <<oo>>,
                       IF okAll THEN <<>> ELSE <<"Cannot connect!">>))
    /\ UNCHANGED <<status, dev>>

\* set_state(OFF), then `del self.sc`, which raises AttributeError when the
\* attribute does not exist.
delete_device ==
    /\ Constructed
    /\ state' = "OFF"
    /\ sc' = "unset"
    /\ Log(Rec("delete_device", 0, <<>>, <<>>,
               IF sc = "set" THEN "none" ELSE "AttributeError",
               NoRet, <<>>, <<>>))
    /\ UNCHANGED <<status, enabled, open, interlock, dev>>

---------------------------------------------------------------------------
(* always_executed_hook *)

HookQueries_swapped == <<"closed?", "ens?", "interlock?">>

HookQueries == <<"ens?", "closed?", "interlock?">>

OpenFromClosed_same(c) == c

\* self.__open = not bool(int(...'closed?'))
OpenFromClosed(c) == ~c

EnabledFromReply_inverted(n) == ~Bool(n)

\* self.__enabled = bool(int(...'ens?'))
EnabledFromReply(n) == Bool(n)

\* The three queries run in sequence; the first one that raises ends the
\* hook, keeping the assignments already made and leaving state and status
\* as they were.  The first `good` exchanges succeed; the next one, if any,
\* fails the way `bad` says.
always_executed_hook ==
    /\ Constructed
    /\ \E good \in 0..3, bad \in {"timeout", "garbage"} :
         LET o   == [i \in 1..3 |-> IF i <= good THEN "ok" ELSE bad]
             r   == [i \in 1..3 |-> Reply(dev, HookQueries[i], o[i])]
             ok0 == sc = "set"
             ok1 == ok0 /\ QueryIntExc(r[1]) = "none"
             ok2 == ok1 /\ QueryIntExc(r[2]) = "none"
             ok3 == ok2 /\ QueryIntExc(r[3]) = "none"
             n   == IF ok2 THEN 3 ELSE IF ok1 THEN 2 ELSE IF ok0 THEN 1 ELSE 0
             exc == IF ~ok0 THEN "AttributeError"
                    ELSE IF ~ok1 THEN QueryIntExc(r[1])
                    ELSE IF ~ok2 THEN QueryIntExc(r[2])
                    ELSE QueryIntExc(r[3])
             op2 == IF ok2 THEN OpenFromClosed(Bool(IntOf(r[2]))) ELSE open
         IN /\ enabled' = IF ok1 THEN EnabledFromReply(IntOf(r[1])) ELSE enabled
            /\ open' = op2
            /\ interlock' = IF ok3 THEN Bool(IntOf(r[3])) ELSE interlock
            /\ status' = IF ~ok3 THEN status
                         ELSE IF op2 THEN "Device is OPEN" ELSE "Device is CLOSED"
            /\ state' = IF ~ok3 THEN state
                        ELSE IF op2 THEN "OPEN" ELSE "CLOSE"
            /\ Log(Rec("always_executed_hook", 0,
                       SubSeq(HookQueries, 1, n),
                       SubSeq(<<r[1], r[2], r[3]>>, 1, n),
                       exc,
                       IF ok3 /\ op2 THEN <<"DevState", "OPEN">> ELSE NoRet,
                       <<>>, <<>>))
    /\ UNCHANGED <<sc, dev>>

---------------------------------------------------------------------------
(* Attribute reads of the cached flags *)

ReadCached(op, v) ==
    /\ Constructed
    /\ Log(Rec(op, 0, <<>>, <<>>, "none", <<"bool", v>>, <<>>, <<>>))
    /\ UNCHANGED <<state, status, enabled, open, interlock, sc, dev>>

read_enabled == ReadCached("read_enabled", enabled)

read_open == ReadCached("read_open", open)

read_interlock == ReadCached("read_interlock", interlock)

---------------------------------------------------------------------------
(* mode attribute *)

WireToMode(w) == w - 1

ModeToWire_noOffset(v) == v

ModeToWire(v) == v + 1

\* return int(self.sc.query('mode?')) - 1
read_mode ==
    /\ Constructed
    /\ \E o \in QueryOutcomes :
         LET r   == Reply(dev, "mode?", o)
             exc == IF sc # "set" THEN "AttributeError" ELSE QueryIntExc(r)
         IN Log(Rec("read_mode", 0,
                    IF sc = "set" THEN <<"mode?">> ELSE <<>>,
                    IF sc = "set" THEN <<r>> ELSE <<>>,
                    exc,
                    IF exc = "none" THEN <<"int", WireToMode(IntOf(r))>> ELSE NoRet,
                    <<>>, <<>>))
    /\ UNCHANGED <<state, status, enabled, open, interlock, sc, dev>>

\* One self.sc.sendcmd(msg) and nothing else.
SendOne(op, arg, msg) ==
    /\ Constructed
    /\ \E o \in CmdOutcomes :
         IF sc = "set"
         THEN /\ dev' = DeviceAfterCmd(dev, msg, o)
              /\ Log(Rec(op, arg, <<msg>>, <<>>, CmdExc(o), NoRet, <<>>, <<>>))
         ELSE /\ dev' = dev
              /\ Log(Rec(op, arg, <<>>, <<>>, "AttributeError", NoRet, <<>>, <<>>))

\* self.sc.sendcmd('mode={:d}'.format(value+1))
write_mode ==
    /\ \E value \in Modes :
         SendOne("write_mode", value, "mode=" \o FormatD(ModeToWire(value)))
    /\ UNCHANGED <<state, status, enabled, open, interlock, sc>>

---------------------------------------------------------------------------
(* Commands *)

EnableSends_always(en) == TRUE

\* enable(): the else branch of `if self.__enabled`
EnableSends(en) == ~en

\* disable(): the then branch of `if self.__enabled`
DisableSends(en) == en

\* enable and disable: 'ens' goes out when `sends`; otherwise only a debug
\* line is written.  The cached flag after the command is `en1`.
Toggle(op, sends, en1) ==
    /\ Constructed
    /\ IF sends
       THEN SendOne(op, 0, "ens")
       ELSE /\ dev' = dev
            /\ Log(Rec(op, 0, <<>>, <<>>, "none", NoRet, <<>>, <<>>))
    /\ enabled' = en1
    /\ UNCHANGED <<state, status, open, interlock, sc>>

enable_caching == Toggle("enable", EnableSends(enabled), TRUE)

enable == Toggle("enable", EnableSends(enabled), enabled)

disable == Toggle("disable", DisableSends(enabled), enabled)

store_config_resp ==
    /\ SendOne("store_config", 0, "resp")
    /\ UNCHANGED <<state, status, enabled, open, interlock, sc>>

store_config ==
    /\ SendOne("store_config", 0, "savp")
    /\ UNCHANGED <<state, status, enabled, open, interlock, sc>>

restore_config ==
    /\ SendOne("restore_config", 0, "resp")
    /\ UNCHANGED <<state, status, enabled, open, interlock, sc>>

---------------------------------------------------------------------------
(* The controller's shutter and interlock move on their own *)

DevicePhysical ==
    /\ \E f \in {"closed", "interlock"} : dev' = [dev EXCEPT ![f] = ~@]
    /\ UNCHANGED <<state, status, enabled, open, interlock, sc, call, prev>>

---------------------------------------------------------------------------

\* The handlers of the connection, the refresh, the cached flags and the
\* commands.
Next ==
    \/ init_device
    \/ delete_device
    \/ always_executed_hook
    \/ read_enabled
    \/ read_open
    \/ read_interlock
    \/ enable
    \/ disable
    \/ store_config
    \/ restore_config
    \/ DevicePhysical

Spec == Init /\ [][Next]_vars

\* The handlers of the connection and of the mode attribute.
NextMode ==
    \/ init_device
    \/ delete_device
    \/ read_mode
    \/ write_mode

SpecMode == Init /\ [][NextMode]_vars

---------------------------------------------------------------------------
(* Properties *)

Flags == <<enabled, open, interlock>>

HookDone == call.op = "always_executed_hook" /\ call.raised = "none"

\* C1: every refresh that completes has sent exactly the three queries
\* 'ens?', 'closed?', 'interlock?', in this order and nothing else, whatever
\* the cached flags were.
C1_RefreshSendsThree ==
    HookDone => call.sent = <<"ens?", "closed?", "interlock?">>

\* A refresh completed right after another completed refresh, with all three
\* cached flags true: nothing was elided.
C1_Witness ==
    /\ HookDone
    /\ prev.op = "always_executed_hook" /\ prev.ok
    /\ enabled /\ open /\ interlock
    /\ Len(call.sent) = 3

\* C2: after a completed refresh the cached open flag is the negation of the
\* reply to 'closed?' (reply 0: open, reply 1: not open), the state is OPEN
\* exactly when the flag is true and CLOSE otherwise, and the status text
\* agrees.
C2_OpenIsNotClosed ==
    HookDone =>
        /\ call.sent[2] = "closed?"
        /\ call.rcvd[2] \in {"0", "1"}
        /\ (call.rcvd[2] = "0") => open
        /\ (call.rcvd[2] = "1") => ~open
        /\ (state = "OPEN") <=> open
        /\ (state = "CLOSE") <=> ~open
        /\ status = IF open THEN "Device is OPEN" ELSE "Device is CLOSED"

\* A completed refresh in which the controller answered 0 to 'closed?'.
C2_Witness ==
    /\ HookDone
    /\ call.rcvd[2] = "0"
    /\ open
    /\ state = "OPEN"

\* C3: with a connection, enable() hands 'ens' to the line exactly once when
\* the cached enabled flag is false and nothing when it is true; disable()
\* does the opposite; so for either value of the flag exactly one of the two
\* sends 'ens'.  (Neither command changes the flag, so the flag read after
\* the command is the flag the command saw.)
C3_ToggleGuard ==
    sc = "set" =>
        /\ call.op = "enable" =>
             call.sent = IF enabled THEN <<>> ELSE <<"ens">>
        /\ call.op = "disable" =>
             call.sent = IF enabled THEN <<"ens">> ELSE <<>>
        /\ call.op \in {"enable", "disable"} =>
             ((call.sent = <<"ens">>) <=> ((call.op = "enable") <=> ~enabled))

\* disable() ran with the cached flag true and sent the toggle.
C3_Witness ==
    /\ sc = "set"
    /\ call.op = "disable"
    /\ enabled
    /\ call.sent = <<"ens">>

\* C4: from cached enabled = false, enable() sends exactly one 'ens', and a
\* second enable() right after it sends exactly one more; only the refresh
\* and init_device write the cached flags, and init_device sets them false.
C4_CacheWrittenOnlyByRefresh ==
    /\ [][ /\ call'.op \notin {"always_executed_hook", "init_device"}
              => Flags' = Flags
           /\ (call'.op = "init_device" /\ call.op # "init_device")
              => Flags' = <<FALSE, FALSE, FALSE>> ]_vars
    /\ [](( /\ call.op = "enable" /\ prev.op = "enable"
            /\ ~enabled /\ sc = "set" )
          => (prev.sent = <<"ens">> /\ call.sent = <<"ens">>))

\* Two enable() calls in a row, both completed, the cached flag still false:
\* each sent one 'ens'.
C4_Witness ==
    /\ call.op = "enable" /\ call.raised = "none"
    /\ prev.op = "enable" /\ prev.ok
    /\ ~enabled /\ sc = "set"
    /\ prev.sent = <<"ens">> /\ call.sent = <<"ens">>

ConnectFailed ==
    call.opens # <<"ok">> \/ call.rcvd = <<Timeout>>

\* C5: init_device never raises and tries the port once; when opening the
\* port or the 'id?' query fails the state is OFF and 'Cannot connect!' is
\* reported; when both succeed the state is ON and nothing is reported.
C5_ConnectNeverRaises ==
    call.op = "init_device" =>
        /\ call.raised = "none"
        /\ Len(call.opens) = 1
        /\ Len(call.sent) <= 1
        /\ ConnectFailed => (state = "OFF" /\ call.errlog = <<"Cannot connect!">>)
        /\ ~ConnectFailed => (state = "ON" /\ call.errlog = <<>>)

\* init_device on a port that cannot be opened.
C5_Witness ==
    /\ call.op = "init_device"
    /\ call.opens = <<"fail">>
    /\ state = "OFF"
    /\ call.errlog = <<"Cannot connect!">>

\* C6 (as claimed): delete_device always succeeds and leaves the device OFF
\* without a connection, also after a failed connect and when run twice.
C6_CloseIdempotent ==
    call.op = "delete_device" =>
        /\ call.raised = "none"
        /\ state = "OFF"
        /\ sc = "unset"

ModeMsg == <<"mode=1", "mode=2", "mode=3", "mode=4", "mode=5">>

\* C7: with a connection, write_mode(m) for m in 0..4 hands exactly
\* 'mode=<m+1>' to the line, a wire value in 1..5; and a read_mode() that
\* completes right after a completed write_mode(m) returns m.
C7_ModeRoundTrip ==
    /\ (call.op = "write_mode" /\ sc = "set") =>
          /\ call.arg \in 0..4
          /\ call.sent = <<ModeMsg[call.arg + 1]>>
    /\ (call.op = "read_mode" /\ call.raised = "none"
        /\ prev.op = "write_mode" /\ prev.ok) =>
          /\ prev.sent = <<ModeMsg[prev.arg + 1]>>
          /\ call.ret = <<"int", prev.arg>>

\* Mode.external written and read back.
C7_Witness ==
    /\ call.op = "read_mode" /\ call.raised = "none"
    /\ prev.op = "write_mode" /\ prev.ok /\ prev.arg = 4
    /\ call.ret = <<"int", 4>>

Operational(s) == s \in {"ON", "OPEN", "CLOSE"}

\* C9 (as claimed): only init_device and delete_device move the device
\* between the operational states (ON, OPEN, CLOSE) and OFF.
C9_OnlyConnectAndClose ==
    [][ call'.op \notin {"init_device", "delete_device"}
        => (Operational(state') <=> Operational(state)) ]_vars

\* C10: with a controller that flips its enable state on every 'ens' and on
\* nothing else, enable() completing right after a completed refresh leaves
\* the controller enabled, and disable() leaves it disabled.
C10_FreshToggle ==
    (prev.op = "always_executed_hook" /\ prev.ok /\ call.raised = "none") =>
        /\ call.op = "enable" => dev.ens
        /\ call.op = "disable" => ~dev.ens

\* enable() after a refresh that found the controller disabled: 'ens' was
\* sent and the controller is enabled.
C10_Witness ==
    /\ prev.op = "always_executed_hook" /\ prev.ok
    /\ call.op = "enable" /\ call.raised = "none"
    /\ call.sent = <<"ens">>
    /\ dev.ens

\* C10, second half: without the refresh the guarantee does not hold.  This
\* is the guarantee stated for enable() after enable(); it is violated.
C10_StaleToggle ==
    (prev.op = "enable" /\ prev.ok /\ call.op = "enable" /\ call.raised = "none")
        => dev.ens

====
